---- MODULE Spec2Model ----
(***************************************************************************)
(* NetGraph (nengo_gui/static/components/netgraph.ts): the registries of   *)
(* items and connections of the network diagram and of its minimap, the    *)
(* index of connections waiting for an item (collapsed_conns), the pan     *)
(* offset and zoom scale, and the extent of the minimap.                   *)
(*                                                                         *)
(* Numbers of the program are IEEE doubles.  They are modelled as exact    *)
(* fractions [n, d] in lowest terms, extended with +Infinity = [1, 0],     *)
(* -Infinity = [-1, 0] and NaN = [0, 0], which is what a division by zero  *)
(* produces in the program.                                                *)
(***************************************************************************)
EXTENDS Integers, Sequences, FiniteSets, TLC

NULL == "null"

\* ------------------------------------------------------------------------
\* Bounds of the model
\* ------------------------------------------------------------------------
MaxNum == 400
MaxDen == 200
MaxEvents == 4

\* ------------------------------------------------------------------------
\* Numbers
\* ------------------------------------------------------------------------
Abs(i) == IF i < 0 THEN -i ELSE i

Sgn(i) == IF i < 0 THEN -1 ELSE IF i = 0 THEN 0 ELSE 1

RECURSIVE GCD(_, _)
GCD(a, b) == IF b = 0 THEN a ELSE GCD(b, a % b)

RNorm(n, d) ==
    IF d = 0 THEN [n |-> Sgn(n), d |-> 0]
    ELSE LET g == GCD(Abs(n), Abs(d))
         IN  [n |-> (Sgn(d) * n) \div g, d |-> Abs(d) \div g]

R(n, d) == RNorm(n, d)

RInt(i) == [n |-> i, d |-> 1]

RIsNaN(a) == a.n = 0 /\ a.d = 0

RIsFinite(a) == a.d # 0

RNeg(a) == [n |-> -a.n, d |-> a.d]

RAdd(a, b) ==
    IF a.d = 0 /\ b.d = 0
    THEN (IF a = b THEN a ELSE [n |-> 0, d |-> 0])
    ELSE IF a.d = 0 \/ b.d = 0
    THEN RNorm(a.n * b.d + b.n * a.d, 0)
    ELSE LET g == GCD(a.d, b.d)
         IN  RNorm(a.n * (b.d \div g) + b.n * (a.d \div g),
                   (a.d \div g) * b.d)

RSub(a, b) == RAdd(a, RNeg(b))

RMul(a, b) ==
    IF a.d = 0 \/ b.d = 0 THEN RNorm(Sgn(a.n) * Sgn(b.n), 0)
    ELSE LET g1 == GCD(Abs(a.n), b.d)
             g2 == GCD(Abs(b.n), a.d)
         IN  RNorm((a.n \div g1) * (b.n \div g2),
                   (a.d \div g2) * (b.d \div g1))

\* 1 / a; the program's zero is +0, so 1 / 0 is +Infinity
RRecip(a) ==
    IF a.n = 0 /\ a.d # 0 THEN [n |-> 1, d |-> 0]
    ELSE RNorm(a.d * Sgn(a.n), Abs(a.n))

RDiv(a, b) == RMul(a, RRecip(b))

RLt(a, b) ==
    IF a.d = 0 /\ b.d = 0
    THEN a.n = -1 /\ b.n = 1
    ELSE IF a.d = 0 \/ b.d = 0
    THEN a.n * b.d < b.n * a.d
    ELSE LET g == GCD(a.d, b.d)
         IN  a.n * (b.d \div g) < b.n * (a.d \div g)

\* Math.max
RMax(a, b) ==
    IF RIsNaN(a) \/ RIsNaN(b) THEN [n |-> 0, d |-> 0]
    ELSE IF RLt(a, b) THEN b ELSE a

RBounded(a) == Abs(a.n) <= MaxNum /\ a.d <= MaxDen

Zero == RInt(0)

One == RInt(1)

\* ------------------------------------------------------------------------
\* Inputs: the uids, the descriptors of the inbound create messages
\* ------------------------------------------------------------------------
ItemUids == {"A", "B", "D"}

\* a connection can carry the uid of an item: the uid spaces are disjoint by
\* convention only
ConnUids == {"c1", "c2", "A"}

Views == {"main", "mini"}

ConnRefs == ConnUids \X Views

\* position and size carried by create and pos_size messages
Geom1 == [pos |-> <<RInt(1), RInt(1)>>, size |-> <<RInt(1), RInt(1)>>]

Geom2 == [pos |-> <<R(7, 2), RInt(1)>>, size |-> <<R(1, 2), RInt(1)>>]

Geoms == {Geom1, Geom2}

\* the network hierarchy of the served model: A contains B contains D, and
\* E is a node next to A
ItemTypes(u) == IF u = "A" THEN {"net"}
                ELSE IF u = "B" THEN {"ens"} ELSE {"node"}

ItemParents(u) == IF u \in {"A", "E"} THEN {NULL}
                  ELSE IF u = "B" THEN {"A"} ELSE {"B"}

ItemInfos(uids, geoms) ==
    UNION { { [type |-> t, uid |-> u, pos |-> g.pos, size |-> g.size,
               parent |-> p, label |-> u] :
                   t \in ItemTypes(u), p \in ItemParents(u) }
            : u \in uids, g \in geoms }

PrePaths == { <<"A">>, <<"D">> }

PostPaths == { <<"D">>, <<"A", "B", "D">> }

\* c1 runs between any of the paths, c2 from D to D
ConnInfos ==
    [type : {"conn"}, uid : {"c1"}, pres : PrePaths, posts : PostPaths]
    \cup [type : {"conn"}, uid : {"c2"}, pres : {<<"D">>}, posts : {<<"D">>}]

ReconnectInfos ==
    [type : {"reconnect"}, uid : {"c1"}, pres : PrePaths, posts : PostPaths]

\* ------------------------------------------------------------------------
\* State of one NetGraph
\* ------------------------------------------------------------------------
VARIABLES
    svg_objects,      \* uid -> item of the main view
    minimap_objects,  \* uid -> item of the minimap
    svg_conns,        \* uid -> reference of the main connection
    minimap_conns,    \* uid -> reference of the minimap connection
    conn_objs,        \* the connection objects, by reference
    collapsed_conns,  \* uid -> list of references of waiting connections
    offsetX, offsetY, \* global pan offset
    scale,            \* global scaling factor
    width, height,    \* pixel size of the SVG
    aspect_resize,    \* config.aspect_resize
    mm_display,       \* minimap visible
    mm_min_x, mm_max_x, mm_min_y, mm_max_y, mm_scale,
    dragging,         \* a drag of the background is in progress
    events,           \* number of events handled so far
    sent,             \* messages passed to ws.send, oldest first
    redraws,          \* redraw() calls per connection in the last handler
    drawn,            \* the connection as each redraw() of the last
                      \* handler saw it, oldest first
    frames,           \* size, scale and offset as each NetGraph.redraw() of
                      \* the last handler saw them, oldest first
    thrown,           \* the last handler ended in a TypeError
    viewbox,          \* scaleMiniMapViewBox() calls in the last handler
    warnings,         \* console.warn() calls in the last handler
    last              \* the handler that ran last

vars == << svg_objects, minimap_objects, svg_conns, minimap_conns, conn_objs,
           collapsed_conns, offsetX, offsetY, scale, width, height,
           aspect_resize, mm_display, mm_min_x, mm_max_x, mm_min_y, mm_max_y,
           mm_scale, dragging, events, sent, redraws, drawn, frames,
           thrown, viewbox, warnings,
           last >>

NoConn == [ uid |-> NULL, minimap |-> FALSE, pres |-> <<>>, posts |-> <<>>,
            pre |-> NULL, post |-> NULL, recurrent |-> FALSE,
            removed |-> TRUE ]

NoRedraws == [r \in ConnRefs |-> 0]

NoDrawn == [r \in ConnRefs |-> <<>>]

\* the fields of the NetGraph object as one record, redraw log cleared
NG ==
    [ svg_objects |-> svg_objects, minimap_objects |-> minimap_objects,
      svg_conns |-> svg_conns, minimap_conns |-> minimap_conns,
      conn_objs |-> conn_objs, collapsed_conns |-> collapsed_conns,
      offsetX |-> offsetX, offsetY |-> offsetY, scale |-> scale,
      width |-> width, height |-> height, aspect_resize |-> aspect_resize,
      mm_display |-> mm_display,
      mm_min_x |-> mm_min_x, mm_max_x |-> mm_max_x,
      mm_min_y |-> mm_min_y, mm_max_y |-> mm_max_y, mm_scale |-> mm_scale,
      sent |-> sent, redraws |-> NoRedraws, drawn |-> NoDrawn,
      frames |-> <<>>, thrown |-> FALSE, viewbox |-> 0, warnings |-> 0 ]

\* the handler op leaves the NetGraph object as S
Becomes(S, op) ==
    /\ svg_objects' = S.svg_objects
    /\ minimap_objects' = S.minimap_objects
    /\ svg_conns' = S.svg_conns
    /\ minimap_conns' = S.minimap_conns
    /\ conn_objs' = S.conn_objs
    /\ collapsed_conns' = S.collapsed_conns
    /\ offsetX' = S.offsetX
    /\ offsetY' = S.offsetY
    /\ scale' = S.scale
    /\ width' = S.width
    /\ height' = S.height
    /\ aspect_resize' = S.aspect_resize
    /\ mm_display' = S.mm_display
    /\ mm_min_x' = S.mm_min_x
    /\ mm_max_x' = S.mm_max_x
    /\ mm_min_y' = S.mm_min_y
    /\ mm_max_y' = S.mm_max_y
    /\ mm_scale' = S.mm_scale
    /\ sent' = S.sent
    /\ redraws' = S.redraws
    /\ drawn' = S.drawn
    /\ frames' = S.frames
    /\ thrown' = S.thrown
    /\ viewbox' = S.viewbox
    /\ warnings' = S.warnings
    /\ last' = op

\* a function without the key k (delete obj[k])
Delete(f, k) == [x \in DOMAIN f \ {k} |-> f[x]]

\* obj[k] = v
Put(f, k, v) == [x \in DOMAIN f \cup {k} |-> IF x = k THEN v ELSE f[x]]

Empty == [x \in {} |-> NULL]

\* ------------------------------------------------------------------------
\* NetGraphItem and NetGraphConnection (netgraph_item, netgraph_conn)
\* ------------------------------------------------------------------------

\* new NetGraphItem(ng, info, minimap, mini_item)
NetGraphItem(S, info, minimap) ==
    LET objects == IF minimap THEN S.minimap_objects ELSE S.svg_objects
    IN  [ uid |-> info.uid, type |-> info.type, minimap |-> minimap,
          x |-> info.pos[1], y |-> info.pos[2],
          width |-> info.size[1], height |-> info.size[2],
          parent |-> info.parent,
          depth |-> IF info.parent = NULL THEN 1
                    ELSE objects[info.parent].depth + 1,
          expanded |-> FALSE, label |-> info.label ]

\* NetGraphItem.getMinMaxXY: [min_x, max_x, min_y, max_y]
getMinMaxXY(item) ==
    << RSub(item.x, item.width), RAdd(item.x, item.width),
       RSub(item.y, item.height), RAdd(item.y, item.height) >>

\* the registry a connection resolves its endpoints in
Objects(S, conn) ==
    IF conn[2] = "mini" THEN S.minimap_objects ELSE S.svg_objects

\* NetGraphConnection.redraw
conn_redraw(S, conn) ==
    [S EXCEPT !.redraws[conn] = @ + 1,
              !.drawn[conn] = Append(@, S.conn_objs[conn])]

\* NetGraph.register_conn with the indexOf test left out
register_conn_push(S, conn, target) ==
    IF target \notin DOMAIN S.collapsed_conns
    THEN [S EXCEPT !.collapsed_conns = Put(@, target, <<conn>>)]
    ELSE [S EXCEPT !.collapsed_conns[target] = Append(@, conn)]

\* NetGraph.register_conn
register_conn(S, conn, target) ==
    IF target \notin DOMAIN S.collapsed_conns
    THEN [S EXCEPT !.collapsed_conns = Put(@, target, <<conn>>)]
    ELSE IF \E i \in 1..Len(S.collapsed_conns[target]) :
                S.collapsed_conns[target][i] = conn
         THEN S
         ELSE [S EXCEPT !.collapsed_conns[target] = Append(@, conn)]

Max(s) == CHOOSE m \in s : \A k \in s : k <= m

Min(s) == CHOOSE m \in s : \A k \in s : m <= k

\* the positions of the path whose uid is (not) an item of the registry
Present(S, conn, path) ==
    { i \in 1..Len(path) : path[i] \in DOMAIN Objects(S, conn) }

Missing(S, conn, path) == (1..Len(path)) \ Present(S, conn, path)

\* resolution of an endpoint path, outermost uid first: the deepest uid
\* that is an item, or null
find_item(S, conn, path) ==
    IF Present(S, conn, path) = {} THEN NULL
    ELSE path[Max(Present(S, conn, path))]

\* resolution registers the connection under the outermost missing uid
find_register(S, conn, path) ==
    IF Missing(S, conn, path) = {} THEN S
    ELSE register_conn(S, conn, path[Min(Missing(S, conn, path))])

\* conn.set_pre(conn.find_pre())
resolve_pre(S, conn) ==
    LET path == S.conn_objs[conn].pres
    IN  [find_register(S, conn, path)
            EXCEPT !.conn_objs[conn].pre = find_item(S, conn, path)]

\* conn.set_post(conn.find_post())
resolve_post(S, conn) ==
    LET path == S.conn_objs[conn].posts
    IN  [find_register(S, conn, path)
            EXCEPT !.conn_objs[conn].post = find_item(S, conn, path)]

\* new NetGraphConnection(ng, info, minimap, mini_conn)
NetGraphConnection(S, info, minimap) ==
    LET conn == <<info.uid, IF minimap THEN "mini" ELSE "main">>
        obj  == [ uid |-> info.uid, minimap |-> minimap,
                  pres |-> info.pres, posts |-> info.posts,
                  pre |-> NULL, post |-> NULL,
                  recurrent |-> (info.pres[1] = info.posts[1]),
                  removed |-> FALSE ]
    IN  resolve_post(resolve_pre([S EXCEPT !.conn_objs[conn] = obj], conn),
                     conn)

\* ------------------------------------------------------------------------
\* NetGraph
\* ------------------------------------------------------------------------

\* what a redraw places the items with: pixel size, scale and pan offset
Frame(S) ==
    [ width |-> S.width, height |-> S.height, scale |-> S.scale,
      offsetX |-> S.offsetX, offsetY |-> S.offsetY ]

\* an access to a property of undefined: the handler ends in a TypeError
throw(S) == [S EXCEPT !.thrown = TRUE]

\* a redraw that writes the pan offset into the position of the items
redraw_shift(S) ==
    [S EXCEPT !.svg_objects =
                  [k \in DOMAIN @ |->
                      [@[k] EXCEPT !.x = RAdd(@, S.offsetX),
                                   !.y = RAdd(@, S.offsetY)]],
              !.redraws =
        [r \in ConnRefs |->
            IF r[1] \in DOMAIN S.svg_conns /\ S.svg_conns[r[1]] = r
            THEN @[r] + 1 ELSE @[r]],
              !.drawn =
        [r \in ConnRefs |->
            IF r[1] \in DOMAIN S.svg_conns /\ S.svg_conns[r[1]] = r
            THEN Append(@[r], S.conn_objs[r]) ELSE @[r]],
              !.frames = Append(@, Frame(S))]

\* NetGraph.redraw: every item and every connection of the main view
redraw(S) ==
    [S EXCEPT !.redraws =
        [r \in ConnRefs |->
            IF r[1] \in DOMAIN S.svg_conns /\ S.svg_conns[r[1]] = r
            THEN @[r] + 1 ELSE @[r]],
              !.drawn =
        [r \in ConnRefs |->
            IF r[1] \in DOMAIN S.svg_conns /\ S.svg_conns[r[1]] = r
            THEN Append(@[r], S.conn_objs[r]) ELSE @[r]],
              !.frames = Append(@, Frame(S))]

\* NetGraph.scaleMiniMapViewBox: the attributes of the highlight rectangle
\* are set again, unless the minimap is hidden
scaleMiniMapViewBox(S) == [S EXCEPT !.viewbox = @ + 1]

\* the least (greatest) of a non-empty set of finite numbers
RMinOf(s) == CHOOSE v \in s : \A w \in s : ~RLt(w, v)

RMaxOf(s) == CHOOSE v \in s : \A w \in s : ~RLt(v, w)

\* the border scaleMiniMap gives the bounding box: mm_scale * .05
Border(sc) == RMul(sc, R(5, 100))

MMScale(S) ==
    RRecip(RMax(RSub(S.mm_max_x, S.mm_min_x), RSub(S.mm_max_y, S.mm_min_y)))

\* scaleMiniMap with the comparison of mm_max_x turned around
scaleMiniMap_nomax(S) ==
    IF ~S.mm_display THEN S
    ELSE IF DOMAIN S.svg_objects = {} THEN S
    ELSE
      LET top == { k \in DOMAIN S.svg_objects : S.svg_objects[k].depth <= 1 }
          box(i) == { getMinMaxXY(S.svg_objects[k])[i] : k \in top }
          S1 == IF top = {} THEN S
                ELSE [S EXCEPT !.mm_min_x = RMaxOf(box(1)),
                               !.mm_max_x = RMinOf(box(2)),
                               !.mm_min_y = RMinOf(box(3)),
                               !.mm_max_y = RMaxOf(box(4))]
          S2 == [S1 EXCEPT !.mm_scale = MMScale(S1)]
          S3 == [S2 EXCEPT !.mm_min_x = RSub(@, Border(S2.mm_scale)),
                           !.mm_max_x = RAdd(@, Border(S2.mm_scale)),
                           !.mm_min_y = RSub(@, Border(S2.mm_scale)),
                           !.mm_max_y = RAdd(@, Border(S2.mm_scale))]
          S4 == [S3 EXCEPT !.mm_scale = MMScale(S3)]
      IN  scaleMiniMapViewBox(redraw(S4))

\* scaleMiniMap without the return on an empty registry
scaleMiniMap_nokeys(S) ==
    IF ~S.mm_display THEN S
    ELSE
      LET top == { k \in DOMAIN S.svg_objects : S.svg_objects[k].depth <= 1 }
          box(i) == { getMinMaxXY(S.svg_objects[k])[i] : k \in top }
          S1 == IF top = {} THEN S
                ELSE [S EXCEPT !.mm_min_x = RMinOf(box(1)),
                               !.mm_max_x = RMaxOf(box(2)),
                               !.mm_min_y = RMinOf(box(3)),
                               !.mm_max_y = RMaxOf(box(4))]
          S2 == [S1 EXCEPT !.mm_scale = MMScale(S1)]
          S3 == [S2 EXCEPT !.mm_min_x = RSub(@, Border(S2.mm_scale)),
                           !.mm_max_x = RAdd(@, Border(S2.mm_scale)),
                           !.mm_min_y = RSub(@, Border(S2.mm_scale)),
                           !.mm_max_y = RAdd(@, Border(S2.mm_scale))]
          S4 == [S3 EXCEPT !.mm_scale = MMScale(S3)]
      IN  scaleMiniMapViewBox(redraw(S4))

\* scaleMiniMap that starts the box from the extent it has instead of from
\* the first item
scaleMiniMap_grow(S) ==
    IF ~S.mm_display THEN S
    ELSE IF DOMAIN S.svg_objects = {} THEN S
    ELSE
      LET top == { k \in DOMAIN S.svg_objects : S.svg_objects[k].depth <= 1 }
          box(i) == { getMinMaxXY(S.svg_objects[k])[i] : k \in top }
          S1 == [S EXCEPT
                   !.mm_min_x = RMinOf(box(1) \cup {S.mm_min_x}),
                   !.mm_max_x = RMaxOf(box(2) \cup {S.mm_max_x}),
                   !.mm_min_y = RMinOf(box(3) \cup {S.mm_min_y}),
                   !.mm_max_y = RMaxOf(box(4) \cup {S.mm_max_y})]
          S2 == [S1 EXCEPT !.mm_scale = MMScale(S1)]
          S3 == [S2 EXCEPT !.mm_min_x = RSub(@, Border(S2.mm_scale)),
                           !.mm_max_x = RAdd(@, Border(S2.mm_scale)),
                           !.mm_min_y = RSub(@, Border(S2.mm_scale)),
                           !.mm_max_y = RAdd(@, Border(S2.mm_scale))]
          S4 == [S3 EXCEPT !.mm_scale = MMScale(S3)]
      IN  scaleMiniMapViewBox(redraw(S4))

\* scaleMiniMap without the test of mm_display
scaleMiniMap_shown(S) ==
    IF DOMAIN S.svg_objects = {} THEN S
    ELSE
      LET top == { k \in DOMAIN S.svg_objects : S.svg_objects[k].depth <= 1 }
          box(i) == { getMinMaxXY(S.svg_objects[k])[i] : k \in top }
          S1 == IF top = {} THEN S
                ELSE [S EXCEPT !.mm_min_x = RMinOf(box(1)),
                               !.mm_max_x = RMaxOf(box(2)),
                               !.mm_min_y = RMinOf(box(3)),
                               !.mm_max_y = RMaxOf(box(4))]
          S2 == [S1 EXCEPT !.mm_scale = MMScale(S1)]
          S3 == [S2 EXCEPT !.mm_min_x = RSub(@, Border(S2.mm_scale)),
                           !.mm_max_x = RAdd(@, Border(S2.mm_scale)),
                           !.mm_min_y = RSub(@, Border(S2.mm_scale)),
                           !.mm_max_y = RAdd(@, Border(S2.mm_scale))]
          S4 == [S3 EXCEPT !.mm_scale = MMScale(S3)]
      IN  scaleMiniMapViewBox(redraw(S4))

\* NetGraph.scaleMiniMap
scaleMiniMap(S) ==
    IF ~S.mm_display THEN S
    ELSE IF DOMAIN S.svg_objects = {} THEN S
    ELSE
      LET top == { k \in DOMAIN S.svg_objects : S.svg_objects[k].depth <= 1 }
          box(i) == { getMinMaxXY(S.svg_objects[k])[i] : k \in top }
          S1 == IF top = {} THEN S
                ELSE [S EXCEPT !.mm_min_x = RMinOf(box(1)),
                               !.mm_max_x = RMaxOf(box(2)),
                               !.mm_min_y = RMinOf(box(3)),
                               !.mm_max_y = RMaxOf(box(4))]
          S2 == [S1 EXCEPT !.mm_scale = MMScale(S1)]
          S3 == [S2 EXCEPT !.mm_min_x = RSub(@, Border(S2.mm_scale)),
                           !.mm_max_x = RAdd(@, Border(S2.mm_scale)),
                           !.mm_min_y = RSub(@, Border(S2.mm_scale)),
                           !.mm_max_y = RAdd(@, Border(S2.mm_scale))]
          S4 == [S3 EXCEPT !.mm_scale = MMScale(S3)]
      IN  scaleMiniMapViewBox(redraw(S4))

\* the loop body without the test of conn.removed
notify_conn_removed(S, conn) ==
    conn_redraw(resolve_post(resolve_pre(S, conn), conn), conn)

\* the loop body without conn.set_post(conn.find_post())
notify_conn_nopost(S, conn) ==
    IF ~S.conn_objs[conn].removed
    THEN conn_redraw(resolve_pre(S, conn), conn)
    ELSE S

\* the body of the loop of detect_collapsed_conns
notify_conn(S, conn) ==
    IF ~S.conn_objs[conn].removed
    THEN conn_redraw(resolve_post(resolve_pre(S, conn), conn), conn)
    ELSE S

RECURSIVE notify_conns(_, _, _)
notify_conns(S, conns, i) ==
    IF i > Len(conns) THEN S
    ELSE notify_conns(notify_conn(S, conns[i]), conns, i + 1)

\* detect_collapsed_conns without the delete of the entry
detect_collapsed_conns_keep(S, uid) ==
    IF uid \in DOMAIN S.collapsed_conns
    THEN notify_conns(S, S.collapsed_conns[uid], 1)
    ELSE S

\* NetGraph.detect_collapsed_conns
detect_collapsed_conns(S, uid) ==
    IF uid \in DOMAIN S.collapsed_conns
    THEN notify_conns([S EXCEPT !.collapsed_conns = Delete(@, uid)],
                      S.collapsed_conns[uid], 1)
    ELSE S

\* create_object that notifies the waiting connections before the item
\* is in the registries
create_object_late(S, info) ==
    LET S1 == detect_collapsed_conns(S, info.uid)
        S2 == detect_collapsed_conns(S1, info.uid)
        S3 == [S2 EXCEPT !.minimap_objects =
                   Put(@, info.uid, NetGraphItem(S, info, TRUE))]
        S4 == [S3 EXCEPT !.svg_objects =
                   Put(@, info.uid, NetGraphItem(S, info, FALSE))]
    IN  scaleMiniMap(S4)

\* create_object that leaves the minimap registry alone
create_object_nomini(S, info) ==
    LET S2 == [S EXCEPT !.svg_objects =
                   Put(@, info.uid, NetGraphItem(S, info, FALSE))]
        S3 == detect_collapsed_conns(S2, info.uid)
        S4 == detect_collapsed_conns(S3, info.uid)
    IN  scaleMiniMap(S4)

\* create_object that recomputes the extent before it notifies the waiting
\* connections
create_object_scale_first(S, info) ==
    LET S1 == [S EXCEPT !.minimap_objects =
                   Put(@, info.uid, NetGraphItem(S, info, TRUE))]
        S2 == [S1 EXCEPT !.svg_objects =
                   Put(@, info.uid, NetGraphItem(S, info, FALSE))]
        S3 == scaleMiniMap(S2)
        S4 == detect_collapsed_conns(S3, info.uid)
    IN  detect_collapsed_conns(S4, info.uid)

\* NetGraph.create_object
create_object(S, info) ==
    LET S1 == [S EXCEPT !.minimap_objects =
                   Put(@, info.uid, NetGraphItem(S, info, TRUE))]
        S2 == [S1 EXCEPT !.svg_objects =
                   Put(@, info.uid, NetGraphItem(S, info, FALSE))]
        S3 == detect_collapsed_conns(S2, info.uid)
        S4 == detect_collapsed_conns(S3, info.uid)
    IN  scaleMiniMap(S4)

\* NetGraph.create_connection
create_connection(S, info) ==
    LET S1 == [NetGraphConnection(S, info, TRUE) EXCEPT !.minimap_conns =
                   Put(@, info.uid, <<info.uid, "mini">>)]
    IN  [NetGraphConnection(S1, info, FALSE) EXCEPT !.svg_conns =
                   Put(@, info.uid, <<info.uid, "main">>)]

\* the connections of both registries, in a fixed order
LiveConns(S) ==
    { r \in ConnRefs :
        \/ r[1] \in DOMAIN S.svg_conns /\ S.svg_conns[r[1]] = r
        \/ r[1] \in DOMAIN S.minimap_conns /\ S.minimap_conns[r[1]] = r }

RECURSIVE SeqOf(_)
SeqOf(s) == IF s = {} THEN <<>>
            ELSE LET first == CHOOSE r \in s : TRUE
                 IN  <<first>> \o SeqOf(s \ {first})

ConnRefSeq == SeqOf(ConnRefs)

\* a connection drawn to or from the removed item resolves again
reattach_conn(S, conn, uid) ==
    IF conn \in LiveConns(S)
       /\ (S.conn_objs[conn].pre = uid \/ S.conn_objs[conn].post = uid)
    THEN conn_redraw(resolve_post(resolve_pre(S, conn), conn), conn)
    ELSE S

RECURSIVE reattach_conns(_, _, _)
reattach_conns(S, uid, i) ==
    IF i > Len(ConnRefSeq) THEN S
    ELSE reattach_conns(reattach_conn(S, ConnRefSeq[i], uid), uid, i + 1)

\* NetGraphItem.remove, of an item of the main view
item_remove(S, uid) ==
    LET S1 == [S EXCEPT !.svg_objects = Delete(@, uid),
                        !.minimap_objects = Delete(@, uid)]
    IN  scaleMiniMap(reattach_conns(S1, uid, 1))

\* NetGraphConnection.remove, of a connection of the main view
conn_remove(S, uid) ==
    [S EXCEPT !.conn_objs[<<uid, "main">>].removed = TRUE,
              !.conn_objs[<<uid, "mini">>].removed = TRUE,
              !.svg_conns = Delete(@, uid),
              !.minimap_conns = Delete(@, uid)]

\* remove that looks the uid up in the connection registry first
on_remove_conn_first(S, uid) ==
    IF uid \in DOMAIN S.svg_conns THEN conn_remove(S, uid)
    ELSE IF uid \in DOMAIN S.svg_objects THEN item_remove(S, uid)
    ELSE throw(S)

\* on_message, data.type === "remove"; item.remove() of undefined throws
on_remove(S, uid) ==
    IF uid \in DOMAIN S.svg_objects THEN item_remove(S, uid)
    ELSE IF uid \in DOMAIN S.svg_conns THEN conn_remove(S, uid)
    ELSE throw(S)

\* NetGraphConnection.set_pres and its twin's
set_pres(S, uid, pres) ==
    LET S1 == [S EXCEPT !.conn_objs[<<uid, "main">>].pres = pres]
        S2 == resolve_pre(S1, <<uid, "main">>)
        S3 == [S2 EXCEPT !.conn_objs[<<uid, "mini">>].pres = pres]
    IN  resolve_pre(S3, <<uid, "mini">>)

\* NetGraphConnection.set_posts and its twin's
set_posts(S, uid, posts) ==
    LET S1 == [S EXCEPT !.conn_objs[<<uid, "main">>].posts = posts]
        S2 == resolve_post(S1, <<uid, "main">>)
        S3 == [S2 EXCEPT !.conn_objs[<<uid, "mini">>].posts = posts]
    IN  resolve_post(S3, <<uid, "mini">>)

\* NetGraphConnection.set_recurrent and its twin's
set_recurrent(S, uid, recurrent) ==
    [S EXCEPT !.conn_objs[<<uid, "main">>].recurrent = recurrent,
              !.conn_objs[<<uid, "mini">>].recurrent = recurrent]

\* reconnect that redraws before it sets the recurrent flag
on_reconnect_early(S, data) ==
    IF data.uid \notin DOMAIN S.svg_conns THEN throw(S)
    ELSE set_recurrent(
           conn_redraw(
             set_posts(set_pres(S, data.uid, data.pres), data.uid, data.posts),
             <<data.uid, "main">>),
           data.uid, data.pres[1] = data.posts[1])

\* on_message, data.type === "reconnect"; conn.set_pres of undefined throws
on_reconnect(S, data) ==
    IF data.uid \notin DOMAIN S.svg_conns THEN throw(S)
    ELSE conn_redraw(
           set_recurrent(
             set_posts(set_pres(S, data.uid, data.pres), data.uid, data.posts),
             data.uid, data.pres[1] = data.posts[1]),
           <<data.uid, "main">>)

\* pos_size that recomputes the extent before the geometry is assigned
on_pos_size_stale(S, data) ==
    IF data.uid \notin DOMAIN S.svg_objects THEN throw(S)
    ELSE [scaleMiniMap(S) EXCEPT
                     !.svg_objects[data.uid].x = data.pos[1],
                     !.svg_objects[data.uid].y = data.pos[2],
                     !.svg_objects[data.uid].width = data.size[1],
                     !.svg_objects[data.uid].height = data.size[2]]

\* pos_size that skips the assignments for an unknown item and goes on
on_pos_size_lenient(S, data) ==
    IF data.uid \notin DOMAIN S.svg_objects THEN scaleMiniMap(S)
    ELSE scaleMiniMap(
           [S EXCEPT !.svg_objects[data.uid].x = data.pos[1],
                     !.svg_objects[data.uid].y = data.pos[2],
                     !.svg_objects[data.uid].width = data.size[1],
                     !.svg_objects[data.uid].height = data.size[2]])

\* on_message, data.type === "pos_size"; item.x of undefined throws
on_pos_size(S, data) ==
    IF data.uid \notin DOMAIN S.svg_objects THEN throw(S)
    ELSE scaleMiniMap(
           [S EXCEPT !.svg_objects[data.uid].x = data.pos[1],
                     !.svg_objects[data.uid].y = data.pos[2],
                     !.svg_objects[data.uid].width = data.size[1],
                     !.svg_objects[data.uid].height = data.size[2]])

\* NetGraph.toggleMiniMap
toggleMiniMap(S) ==
    IF S.mm_display THEN [S EXCEPT !.mm_display = FALSE]
    ELSE scaleMiniMap([S EXCEPT !.mm_display = TRUE])

\* the connections listed in the pending index
Waiting(cc) ==
    UNION { { cc[k][i] : i \in 1..Len(cc[k]) } : k \in DOMAIN cc }

\* a removed connection that the pending index no longer lists is garbage
Collect(S) ==
    [S EXCEPT !.conn_objs =
        [r \in ConnRefs |->
            IF @[r].removed /\ r \notin Waiting(S.collapsed_conns)
            THEN NoConn ELSE @[r]]]

\* the numbers of the minimap extent stay within the bounds of the model
MMBounded(S) ==
    /\ RBounded(S.mm_min_x) /\ RBounded(S.mm_max_x)
    /\ RBounded(S.mm_min_y) /\ RBounded(S.mm_max_y)
    /\ RBounded(S.mm_scale)

\* ------------------------------------------------------------------------
\* Initial state: the fields as the constructor leaves them
\* ------------------------------------------------------------------------
Sizes == { <<500, 400>>, <<250, 200>> }

Init ==
    /\ svg_objects = Empty
    /\ minimap_objects = Empty
    /\ svg_conns = Empty
    /\ minimap_conns = Empty
    /\ conn_objs = [r \in ConnRefs |-> NoConn]
    /\ collapsed_conns = Empty
    /\ offsetX = Zero
    /\ offsetY = Zero
    /\ scale = One
    /\ width = 500
    /\ height = 400
    /\ aspect_resize = FALSE
    /\ mm_display = FALSE
    /\ mm_min_x = Zero
    /\ mm_max_x = Zero
    /\ mm_min_y = Zero
    /\ mm_max_y = Zero
    /\ mm_scale = R(1, 10)
    /\ dragging = FALSE
    /\ events = 0
    /\ sent = <<>>
    /\ redraws = NoRedraws
    /\ drawn = NoDrawn
    /\ frames = <<>>
    /\ thrown = FALSE
    /\ viewbox = 0
    /\ warnings = 0
    /\ last = [op |-> "init", arg |-> NULL]

\* an inbound message was handled and left the NetGraph object as S
Handled(S, op, arg) ==
    /\ MMBounded(S)
    /\ Becomes(Collect(S), [op |-> op, arg |-> arg])

\* a message: it leaves a drag in progress as it is
Message == UNCHANGED << dragging, events >>

\* ------------------------------------------------------------------------
\* Inbound messages (on_message)
\* ------------------------------------------------------------------------
\* type net, ens or node
OnCreateObject(uids, geoms) ==
    \E info \in ItemInfos(uids, geoms) :
        /\ info.uid \notin DOMAIN svg_objects
        /\ info.parent = NULL \/ info.parent \in DOMAIN svg_objects
        /\ Handled(create_object(NG, info), "create", info.uid)

\* type conn; a uid names one connection object at a time
OnCreateConnection ==
    \E info \in ConnInfos :
        /\ info.uid \notin DOMAIN svg_conns
        /\ \A v \in Views : <<info.uid, v>> \notin Waiting(collapsed_conns)
        /\ Handled(create_connection(NG, info), "conn", info.uid)

\* type remove
OnRemove(uids) ==
    \E uid \in uids :
        Handled(on_remove(NG, uid), "remove", uid)

\* type reconnect
OnReconnect ==
    \E data \in ReconnectInfos :
        Handled(on_reconnect(NG, data), "reconnect", data.uid)

\* type pos_size
OnPosSize(uids, geoms) ==
    \E uid \in uids, g \in geoms :
        Handled(on_pos_size(NG, [type |-> "pos_size", uid |-> uid,
                                 pos |-> g.pos, size |-> g.size]),
                "pos_size", [uid |-> uid, pos |-> g.pos, size |-> g.size])

\* the user shows or hides the minimap
OnToggleMiniMap == Handled(toggleMiniMap(NG), "toggle", NULL)

MsgCreateObject == OnCreateObject(ItemUids, {Geom1}) /\ Message

MsgCreateConnection == OnCreateConnection /\ Message

MsgRemove == OnRemove(ItemUids \cup ConnUids) /\ Message

MsgReconnect == OnReconnect /\ Message

ToggleMiniMap == OnToggleMiniMap /\ Message

Next ==
    \/ MsgCreateObject
    \/ MsgCreateConnection
    \/ MsgRemove
    \/ MsgReconnect
    \/ ToggleMiniMap

Spec == Init /\ [][Next]_vars

\* ------------------------------------------------------------------------
\* Pan, zoom and resize
\* ------------------------------------------------------------------------

\* NetGraph.notify: ws.send
notify(S, info) == [S EXCEPT !.sent = Append(@, info)]

\* the Auto-layout entry of generate_menu
auto_layout(S) == notify(S, [act |-> "feedforward_layout", uid |-> NULL])

\* NetGraph.get_scaled_width
get_scaled_width(S) == RMul(RInt(S.width), S.scale)

\* NetGraph.get_scaled_height
get_scaled_height(S) == RMul(RInt(S.height), S.scale)

\* the setter of NetGraph.scale
set_scale(S, val) ==
    IF val = S.scale THEN S ELSE redraw([S EXCEPT !.scale = val])

\* NetGraph.set_offset
set_offset(S, x, y) == redraw([S EXCEPT !.offsetX = x, !.offsetY = y])

\* onmove that also reports the pan to the server
onmove_notify(S, event) ==
    LET S1 == [S EXCEPT
                 !.offsetX = RAdd(@, RDiv(RInt(event.dx), get_scaled_width(S))),
                 !.offsetY = RAdd(@, RDiv(RInt(event.dy), get_scaled_height(S)))]
    IN  notify(scaleMiniMapViewBox(redraw(S1)),
               [act |-> "pan", x |-> S1.offsetX, y |-> S1.offsetY])

\* onmove that divides by the pixel size only
onmove_unscaled(S, event) ==
    scaleMiniMapViewBox(redraw([S EXCEPT
              !.offsetX = RAdd(@, RDiv(RInt(event.dx), RInt(S.width))),
              !.offsetY = RAdd(@, RDiv(RInt(event.dy), RInt(S.height)))]))

\* draggable onmove: one move tick of a drag of the background
onmove(S, event) ==
    scaleMiniMapViewBox(redraw([S EXCEPT
              !.offsetX = RAdd(@, RDiv(RInt(event.dx), get_scaled_width(S))),
              !.offsetY = RAdd(@, RDiv(RInt(event.dy), get_scaled_height(S)))]))

\* draggable onend
onend(S) == notify(S, [act |-> "pan", x |-> S.offsetX, y |-> S.offsetY])

tool_height == 40

\* Math.log(v), to two decimals: Math.log(148) is 4.9972
MathLog(v) ==
    CASE v = 1 -> Zero
      [] v = 148 -> RInt(5)

\* the delta the wheel handler derives from deltaMode and deltaY
wheel_delta(event) ==
    IF event.deltaMode = 1
    THEN IF event.deltaY # 0
         THEN RMul(RInt(Sgn(event.deltaY)),
                   RMul(MathLog(1 + Abs(event.deltaY)), RInt(60)))
         ELSE Zero
    ELSE IF event.deltaMode = 2 THEN Zero
    ELSE RInt(event.deltaY)

RAbs(a) == [n |-> Abs(a.n), d |-> a.d]

\* a factor that falls linearly with delta
wheel_z_scale_linear(delta) == RSub(One, RDiv(delta, RInt(600)))

\* the factor the wheel handler multiplies the scale with
wheel_z_scale(delta) ==
    LET z == RAdd(One, RDiv(RAbs(delta), RInt(600)))
    IN  IF RLt(Zero, delta) THEN RRecip(z) ELSE z

\* the zoom record the wheel handler reports
zoom_info(S) ==
    [act |-> "zoom", scale |-> S.scale, x |-> S.offsetX, y |-> S.offsetY]

\* the wheel handler reporting only when the zoom changed something
on_wheel_quiet(S, event) ==
    LET x == RDiv(RInt(event.clientX), RInt(S.width))
        y == RDiv(RInt(event.clientY - tool_height), RInt(S.height))
        z_scale == wheel_z_scale(wheel_delta(event))
        xx == RSub(RDiv(x, S.scale), S.offsetX)
        yy == RSub(RDiv(y, S.scale), S.offsetY)
        S1 == [S EXCEPT
                 !.offsetX = RSub(RDiv(RAdd(@, xx), z_scale), xx),
                 !.offsetY = RSub(RDiv(RAdd(@, yy), z_scale), yy)]
        S2 == redraw(scaleMiniMapViewBox(set_scale(S1, RMul(z_scale, S1.scale))))
    IN  IF z_scale = One THEN S2 ELSE notify(S2, zoom_info(S2))

\* the wheel handler reporting the zoom before it is applied
on_wheel_early(S, event) ==
    LET x == RDiv(RInt(event.clientX), RInt(S.width))
        y == RDiv(RInt(event.clientY - tool_height), RInt(S.height))
        z_scale == wheel_z_scale(wheel_delta(event))
        xx == RSub(RDiv(x, S.scale), S.offsetX)
        yy == RSub(RDiv(y, S.scale), S.offsetY)
        S0 == notify(S, zoom_info(S))
        S1 == [S0 EXCEPT
                 !.offsetX = RSub(RDiv(RAdd(@, xx), z_scale), xx),
                 !.offsetY = RSub(RDiv(RAdd(@, yy), z_scale), yy)]
    IN  redraw(scaleMiniMapViewBox(set_scale(S1, RMul(z_scale, S1.scale))))

\* the wheel handler assigning the scale before it takes the point under
\* the cursor
on_wheel_rescaled(S, event) ==
    LET x == RDiv(RInt(event.clientX), RInt(S.width))
        y == RDiv(RInt(event.clientY - tool_height), RInt(S.height))
        z_scale == wheel_z_scale(wheel_delta(event))
        S0 == set_scale(S, RMul(z_scale, S.scale))
        xx == RSub(RDiv(x, S0.scale), S0.offsetX)
        yy == RSub(RDiv(y, S0.scale), S0.offsetY)
        S1 == [S0 EXCEPT
                 !.offsetX = RSub(RDiv(RAdd(@, xx), z_scale), xx),
                 !.offsetY = RSub(RDiv(RAdd(@, yy), z_scale), yy)]
        S2 == redraw(scaleMiniMapViewBox(S1))
    IN  notify(S2, zoom_info(S2))

\* the wheel handler
on_wheel(S, event) ==
    LET x == RDiv(RInt(event.clientX), RInt(S.width))
        y == RDiv(RInt(event.clientY - tool_height), RInt(S.height))
        z_scale == wheel_z_scale(wheel_delta(event))
        xx == RSub(RDiv(x, S.scale), S.offsetX)
        yy == RSub(RDiv(y, S.scale), S.offsetY)
        S1 == [S EXCEPT
                 !.offsetX = RSub(RDiv(RAdd(@, xx), z_scale), xx),
                 !.offsetY = RSub(RDiv(RAdd(@, yy), z_scale), yy)]
        S2 == redraw(scaleMiniMapViewBox(set_scale(S1, RMul(z_scale, S1.scale))))
    IN  notify(S2, zoom_info(S2))

\* the setter of NetGraph.aspect_resize
set_aspect_resize(S, val) ==
    IF val = S.aspect_resize THEN S ELSE [S EXCEPT !.aspect_resize = val]

\* on_resize keeping the screen size of every item, whatever its depth
on_resize_anydepth(S, w, h) ==
    LET rescaled(item) ==
            IF S.aspect_resize
            THEN [item EXCEPT
                    !.width = RDiv(RMul(@, RInt(S.width)), RInt(w)),
                    !.height = RDiv(RMul(@, RInt(S.height)), RInt(h))]
            ELSE item
    IN  redraw([S EXCEPT
                  !.svg_objects =
                      [k \in DOMAIN @ |-> rescaled(@[k])],
                  !.width = w, !.height = h])

\* NetGraph.on_resize, the SVG measured as w by h pixels
on_resize(S, w, h) ==
    LET rescaled(item) ==
            IF S.aspect_resize /\ item.depth = 1
            THEN [item EXCEPT
                    !.width = RDiv(RMul(@, RInt(S.width)), RInt(w)),
                    !.height = RDiv(RMul(@, RInt(S.height)), RInt(h))]
            ELSE item
    IN  redraw([S EXCEPT
                  !.svg_objects =
                      [k \in DOMAIN @ |-> rescaled(@[k])],
                  !.width = w, !.height = h])

\* item.expand(rts, auto) and item.collapse(rts, auto) of on_message: the
\* item and its twin take the flag, and the server is told unless auto
item_expand(S, uid, expanded, auto) ==
    IF uid \notin DOMAIN S.svg_objects THEN throw(S)
    ELSE LET S1 == [S EXCEPT !.svg_objects[uid].expanded = expanded,
                             !.minimap_objects[uid].expanded = expanded]
         IN  IF auto THEN S1
             ELSE notify(S1, [act |-> IF expanded THEN "expand"
                                      ELSE "collapse",
                              uid |-> uid])

\* item.set_label(name) of on_message
set_label(S, uid, name) ==
    IF uid \notin DOMAIN S.svg_objects THEN throw(S)
    ELSE [S EXCEPT !.svg_objects[uid].label = name]

\* a pan branch reading the pair in the other order
on_pan_swapped(S, data) ==
    IF "pan" \notin DOMAIN data THEN throw(S)
    ELSE set_offset(S, data.pan[2], data.pan[1])

\* the pan branch of on_message: data.pan[0] of a message without the field
\* pan is a TypeError
on_pan(S, data) ==
    IF "pan" \notin DOMAIN data THEN throw(S)
    ELSE set_offset(S, data.pan[1], data.pan[2])

\* the types on_message has a branch for
KnownTypes ==
    { "net", "ens", "node", "conn", "pan", "zoom", "expand", "collapse",
      "pos_size", "config", "js", "rename", "remove", "reconnect",
      "delete_graph" }

\* on_message whose last branch also resets the pan offset
on_message_reset(S, data) ==
    CASE data.type \in {"net", "ens", "node"} -> create_object(S, data)
      [] data.type = "conn" -> create_connection(S, data)
      [] data.type = "pan" -> on_pan(S, data)
      [] data.type = "zoom" -> set_scale(S, data.zoom)
      [] data.type = "expand" -> item_expand(S, data.uid, TRUE, TRUE)
      [] data.type = "collapse" -> item_expand(S, data.uid, FALSE, TRUE)
      [] data.type = "pos_size" -> on_pos_size(S, data)
      [] data.type \in {"config", "js", "delete_graph"} -> S
      [] data.type = "rename" -> set_label(S, data.uid, data.name)
      [] data.type = "remove" -> on_remove(S, data.uid)
      [] data.type = "reconnect" -> on_reconnect(S, data)
      [] OTHER -> set_offset([S EXCEPT !.warnings = @ + 1], Zero, Zero)

\* on_message calling item.expand(true) and item.collapse(true), without
\* the flag auto
on_message_echo(S, data) ==
    CASE data.type \in {"net", "ens", "node"} -> create_object(S, data)
      [] data.type = "conn" -> create_connection(S, data)
      [] data.type = "pan" -> on_pan(S, data)
      [] data.type = "zoom" -> set_scale(S, data.zoom)
      [] data.type = "expand" -> item_expand(S, data.uid, TRUE, FALSE)
      [] data.type = "collapse" -> item_expand(S, data.uid, FALSE, FALSE)
      [] data.type = "pos_size" -> on_pos_size(S, data)
      [] data.type \in {"config", "js", "delete_graph"} -> S
      [] data.type = "rename" -> set_label(S, data.uid, data.name)
      [] data.type = "remove" -> on_remove(S, data.uid)
      [] data.type = "reconnect" -> on_reconnect(S, data)
      [] OTHER -> [S EXCEPT !.warnings = @ + 1]

\* NetGraph.on_message; config, js and delete_graph act on other
\* components; the last branch is console.warn
on_message(S, data) ==
    CASE data.type \in {"net", "ens", "node"} -> create_object(S, data)
      [] data.type = "conn" -> create_connection(S, data)
      [] data.type = "pan" -> on_pan(S, data)
      [] data.type = "zoom" -> set_scale(S, data.zoom)
      [] data.type = "expand" -> item_expand(S, data.uid, TRUE, TRUE)
      [] data.type = "collapse" -> item_expand(S, data.uid, FALSE, TRUE)
      [] data.type = "pos_size" -> on_pos_size(S, data)
      [] data.type \in {"config", "js", "delete_graph"} -> S
      [] data.type = "rename" -> set_label(S, data.uid, data.name)
      [] data.type = "remove" -> on_remove(S, data.uid)
      [] data.type = "reconnect" -> on_reconnect(S, data)
      [] OTHER -> [S EXCEPT !.warnings = @ + 1]

\* ------------------------------------------------------------------------
\* Properties of the registries and of the pending index
\* ------------------------------------------------------------------------

\* the connections listed under uid
WaitingOn(cc, uid) ==
    IF uid \in DOMAIN cc THEN { cc[uid][i] : i \in 1..Len(cc[uid]) } ELSE {}

\* how often conn is listed under uid
TimesListed(cc, uid, conn) ==
    IF uid \in DOMAIN cc
    THEN Cardinality({ i \in 1..Len(cc[uid]) : cc[uid][i] = conn })
    ELSE 0

\* the connections the two registries hold
Live == LiveConns(NG)

\* the deepest uid of the path that is an item of objs, or null
Deepest(objs, path) ==
    IF \A i \in 1..Len(path) : path[i] \notin DOMAIN objs THEN NULL
    ELSE path[Max({ i \in 1..Len(path) : path[i] \in DOMAIN objs })]

\* the object c has both endpoints resolved against objs
ResolvedIn(objs, c) ==
    /\ c.pre = Deepest(objs, c.pres)
    /\ c.post = Deepest(objs, c.posts)

\* C1: the main and the minimap item registry hold the same uids, each uid
\* mapping to its one item of that view
C1_TwinInvariant ==
    /\ DOMAIN svg_objects = DOMAIN minimap_objects
    /\ \A u \in DOMAIN svg_objects :
          /\ svg_objects[u].uid = u /\ ~svg_objects[u].minimap
          /\ minimap_objects[u].uid = u /\ minimap_objects[u].minimap

\* C1 witness: an item was removed while another stays, in both registries
C1_Witness ==
    /\ last.op = "remove" /\ last.arg \in ItemUids
    /\ last.arg \notin DOMAIN svg_objects
    /\ DOMAIN svg_objects # {}
    /\ DOMAIN minimap_objects = DOMAIN svg_objects

\* the objects a connection reference resolves in, after the step
ObjectsAfter(r) == IF r[2] = "mini" THEN minimap_objects' ELSE svg_objects'

\* C2 as stated: a create message resolves every live connection waiting
\* on its uid again and redraws it exactly once
C2_Original ==
    [][ last'.op = "create" =>
          \A r \in WaitingOn(collapsed_conns, last'.arg) :
              ~conn_objs[r].removed =>
                  /\ ResolvedIn(ObjectsAfter(r), conn_objs'[r])
                  /\ redraws'[r] = 1 ]_vars

\* C2 amended: a create message resolves every live connection waiting on
\* its uid again and the notification redraws it once; this is its only
\* redraw while the minimap is hidden, and with the minimap visible the
\* connection of the main view is redrawn once more by scaleMiniMap
C2_RedrawnOnceByNotification ==
    [][ last'.op = "create" =>
          \A r \in WaitingOn(collapsed_conns, last'.arg) :
              ~conn_objs[r].removed =>
                  /\ ResolvedIn(ObjectsAfter(r), conn_objs'[r])
                  /\ redraws'[r] =
                        IF mm_display /\ r[2] = "main" THEN 2 ELSE 1 ]_vars

\* C2 witness: with the minimap visible, a create message resolved a
\* waiting connection to the new item and redrew its twins twice and once
C2_Witness ==
    /\ last.op = "create" /\ mm_display
    /\ \E u \in ConnUids :
          /\ redraws[<<u, "main">>] = 2 /\ redraws[<<u, "mini">>] = 1
          /\ conn_objs[<<u, "main">>].post = last.arg
          /\ conn_objs[<<u, "mini">>].post = last.arg

Chain == <<"A", "B", "D">>

\* the live connections whose post path is A, B, D
ChainConns == { r \in Live : conn_objs[r].posts = Chain }

Listed == Waiting(collapsed_conns)

C5_EntryRemoved ==
    last.op = "create" => last.arg \notin DOMAIN collapsed_conns

\* C5 witness: a create message notified a waiting connection while the
\* minimap was hidden, and other entries of the index remain
C5_Witness ==
    /\ last.op = "create" /\ ~mm_display
    /\ \E r \in ConnRefs : redraws[r] = 1
    /\ DOMAIN collapsed_conns # {}
    /\ last.arg \notin DOMAIN collapsed_conns

\* C6: registering a pair the pending index already holds leaves the index
\* unchanged, and no list of the index holds a connection twice
C6_NoDuplicateRegistration ==
    \A k \in DOMAIN collapsed_conns :
        \A i \in 1..Len(collapsed_conns[k]) :
            /\ register_conn(NG, collapsed_conns[k][i], k).collapsed_conns
                  = collapsed_conns
            /\ \A j \in 1..Len(collapsed_conns[k]) :
                  collapsed_conns[k][i] = collapsed_conns[k][j] => i = j

\* C6 witness: a connection from D to D was created while D is missing, so
\* that both of its endpoints registered it under D
C6_Witness ==
    /\ last.op = "conn" /\ last.arg = "c2"
    /\ conn_objs[<<"c2", "main">>].pre = NULL
    /\ conn_objs[<<"c2", "main">>].post = NULL
    /\ TimesListed(collapsed_conns, "D", <<"c2", "main">>) = 1
    /\ Len(collapsed_conns["D"]) >= 2

\* C7: a connection removed while it waits is neither resolved again nor
\* redrawn when the uid it waits on is created, its twin is removed with it
\* and neither twin returns to a registry
C7_RemovedNotRevived ==
    /\ [](\A u \in ConnUids :
            /\ conn_objs[<<u, "main">>].removed
                  = conn_objs[<<u, "mini">>].removed
            /\ conn_objs[<<u, "main">>].removed <=> u \notin DOMAIN svg_conns
            /\ conn_objs[<<u, "mini">>].removed
                  <=> u \notin DOMAIN minimap_conns)
    /\ [][ last'.op = "create" =>
             \A r \in WaitingOn(collapsed_conns, last'.arg) :
                 conn_objs[r].removed =>
                     /\ redraws'[r] = 0
                     /\ conn_objs'[r] \in {conn_objs[r], NoConn}
                     /\ \A k \in DOMAIN collapsed_conns' :
                           TimesListed(collapsed_conns', k, r)
                              = TimesListed(collapsed_conns, k, r)
                     /\ r[1] \notin DOMAIN svg_conns'
                     /\ r[1] \notin DOMAIN minimap_conns' ]_vars

\* C7 witness: the item a removed connection waited on with its pre
\* endpoint was created, and the connection is still unresolved and removed
C7_Witness ==
    /\ last.op = "create"
    /\ \E r \in Listed :
          /\ conn_objs[r].removed
          /\ conn_objs[r].pres = <<last.arg>>
          /\ conn_objs[r].pre = NULL
          /\ redraws[r] = 0

\* ------------------------------------------------------------------------
\* Input events and the inbound pan and zoom messages
\* ------------------------------------------------------------------------
DragEvents == { [dx |-> 10, dy |-> -5], [dx |-> -4, dy |-> 8] }

WheelEvents ==
    { [clientX |-> 250, clientY |-> tool_height + 100, deltaMode |-> 0,
       deltaY |-> -600],
      [clientX |-> 250, clientY |-> tool_height + 100, deltaMode |-> 0,
       deltaY |-> 600],
      [clientX |-> 125, clientY |-> tool_height, deltaMode |-> 1,
       deltaY |-> -147],
      [clientX |-> 125, clientY |-> tool_height, deltaMode |-> 1,
       deltaY |-> 0],
      [clientX |-> 125, clientY |-> tool_height, deltaMode |-> 2,
       deltaY |-> 3] }

PanMsgs == { [type |-> "pan", pan |-> <<Zero, Zero>>],
             [type |-> "pan", pan |-> <<R(1, 2), R(-1, 4)>>] }

ZoomMsgs == { [type |-> "zoom", zoom |-> One],
              [type |-> "zoom", zoom |-> RInt(2)] }

\* one more event handled, of the events the model follows
Tick == events < MaxEvents /\ events' = events + 1

\* type net, ens or node, for item A
ViewCreateObject ==
    OnCreateObject({"A"}, {Geom1}) /\ Tick /\ UNCHANGED dragging

\* draggable onstart
DragStart ==
    /\ ~dragging
    /\ dragging' = TRUE
    /\ Handled(NG, "drag_start", NULL)
    /\ Tick

DragMove ==
    \E event \in DragEvents :
        /\ dragging
        /\ Handled(onmove(NG, event), "drag_move", event)
        /\ Tick
        /\ UNCHANGED dragging

DragEnd ==
    /\ dragging
    /\ dragging' = FALSE
    /\ Handled(onend(NG), "drag_end", NULL)
    /\ Tick

Wheel ==
    \E event \in WheelEvents :
        /\ Handled(on_wheel(NG, event), "wheel", event)
        /\ Tick
        /\ UNCHANGED dragging

\* type pan
MsgPan ==
    \E data \in PanMsgs :
        /\ Handled(set_offset(NG, data.pan[1], data.pan[2]), "pan", NULL)
        /\ Tick
        /\ UNCHANGED dragging

\* type zoom
MsgZoom ==
    \E data \in ZoomMsgs :
        /\ Handled(set_scale(NG, data.zoom), "zoom", NULL)
        /\ Tick
        /\ UNCHANGED dragging

\* the resize event of the SVG or of the window
Resize ==
    \E sz \in Sizes :
        /\ Handled(on_resize(NG, sz[1], sz[2]), "resize", sz)
        /\ Tick
        /\ UNCHANGED dragging

\* the user shows or hides the minimap
ViewToggleMiniMap == OnToggleMiniMap /\ Tick /\ UNCHANGED dragging

NextView ==
    \/ ViewCreateObject
    \/ ViewToggleMiniMap
    \/ DragStart
    \/ DragMove
    \/ DragEnd
    \/ Wheel
    \/ MsgPan
    \/ MsgZoom
    \/ Resize

SpecView == Init /\ [][NextView]_vars

\* ------------------------------------------------------------------------
\* Properties of the pan and zoom gestures
\* ------------------------------------------------------------------------

\* C8: a move tick with pixel delta (dx, dy) adds dx / (width * scale) to
\* offsetX and dy / (height * scale) to offsetY, with the scale and size of
\* that moment, and changes neither the scale nor an item registry
C8_DragMoveDelta ==
    [][ last'.op = "drag_move" =>
          /\ offsetX' = RAdd(offsetX, RDiv(RInt(last'.arg.dx),
                                           RMul(RInt(width), scale)))
          /\ offsetY' = RAdd(offsetY, RDiv(RInt(last'.arg.dy),
                                           RMul(RInt(height), scale)))
          /\ scale' = scale
          /\ svg_objects' = svg_objects
          /\ minimap_objects' = minimap_objects ]_vars

\* C8 witness: the drag of (10, -5) pixels at scale 2 on 500 x 400 pixels,
\* from offset (0, 0), with an item in the registries
C8_Witness ==
    /\ last.op = "drag_move" /\ last.arg = [dx |-> 10, dy |-> -5]
    /\ scale = RInt(2) /\ width = 500 /\ height = 400
    /\ offsetX = R(1, 100) /\ offsetY = R(-1, 160)
    /\ DOMAIN svg_objects = {"A"} /\ DOMAIN minimap_objects = {"A"}

\* C9: the start and the move ticks of a drag send nothing, the end of the
\* drag sends one pan notification carrying the offset the ticks have
\* accumulated, and nothing else sends a pan notification
C9_OnePanAtDragEnd ==
    [][ /\ last'.op \in {"drag_start", "drag_move"} => sent' = sent
        /\ last'.op = "drag_end" =>
              /\ sent' = Append(sent, [act |-> "pan", x |-> offsetX,
                                       y |-> offsetY])
              /\ offsetX' = offsetX /\ offsetY' = offsetY
        /\ (sent' # sent /\ sent'[Len(sent')].act = "pan") =>
              last'.op = "drag_end" ]_vars

\* C9 witness: a drag of two move ticks ended; its one notification is the
\* only message sent and carries the sum of the two ticks
C9_Witness ==
    /\ last.op = "drag_end" /\ events = 4
    /\ sent = << [act |-> "pan", x |-> offsetX, y |-> offsetY] >>
    /\ offsetX = R(2, 100) /\ offsetY = R(-2, 160)

\* C10: a wheel event sends one zoom notification, whatever its delta, and
\* the notification carries scale, offsetX and offsetY as the event left
\* them
C10_OneZoomPerWheel ==
    [][ last'.op = "wheel" =>
          sent' = Append(sent, [act |-> "zoom", scale |-> scale',
                                x |-> offsetX', y |-> offsetY']) ]_vars

\* C10 witness: after a wheel event that changed the scale, a wheel event
\* of delta 0 left scale and offset alone and sent its own notification
C10_Witness ==
    /\ last.op = "wheel" /\ last.arg.deltaMode = 2
    /\ Len(sent) = 2
    /\ sent[1].act = "zoom" /\ sent[2] = sent[1]
    /\ sent[2].scale = scale /\ scale # One

\* ------------------------------------------------------------------------
\* The extent of the minimap: items created, moved and removed while the
\* minimap is shown or hidden
\* ------------------------------------------------------------------------
MapUids == {"A", "B", "E"}

MapCreateObject == OnCreateObject(MapUids, Geoms) /\ Message

MapPosSize == OnPosSize(MapUids, Geoms) /\ Message

MapRemove == OnRemove(MapUids) /\ Message

MapToggleMiniMap == OnToggleMiniMap /\ Message

NextMap ==
    \/ MapCreateObject
    \/ MapPosSize
    \/ MapRemove
    \/ MapToggleMiniMap

SpecMap == Init /\ [][NextMap]_vars

\* the tracked extent before and after a step
Extent ==
    [ min_x |-> mm_min_x, max_x |-> mm_max_x,
      min_y |-> mm_min_y, max_y |-> mm_max_y, scale |-> mm_scale ]

ExtentAfter ==
    [ min_x |-> mm_min_x', max_x |-> mm_max_x',
      min_y |-> mm_min_y', max_y |-> mm_max_y', scale |-> mm_scale' ]

\* the items of nesting depth 1 or less
TopItems(objs) == { k \in DOMAIN objs : objs[k].depth <= 1 }

\* the bounding box of the top-level items
BoxOf(objs) ==
    [ min_x |-> RMinOf({ RSub(objs[k].x, objs[k].width) : k \in TopItems(objs) }),
      max_x |-> RMaxOf({ RAdd(objs[k].x, objs[k].width) : k \in TopItems(objs) }),
      min_y |-> RMinOf({ RSub(objs[k].y, objs[k].height) : k \in TopItems(objs) }),
      max_y |-> RMaxOf({ RAdd(objs[k].y, objs[k].height) : k \in TopItems(objs) }) ]

\* 1 / the longer side of a box
ScaleOf(box) ==
    RRecip(RMax(RSub(box.max_x, box.min_x), RSub(box.max_y, box.min_y)))

\* a box widened by 5% of its scale on each side, with the scale of the
\* widened box
Padded(box) ==
    LET b == RMul(ScaleOf(box), R(1, 20))
        wide == [ min_x |-> RSub(box.min_x, b), max_x |-> RAdd(box.max_x, b),
                  min_y |-> RSub(box.min_y, b), max_y |-> RAdd(box.max_y, b) ]
    IN  [ min_x |-> wide.min_x, max_x |-> wide.max_x,
          min_y |-> wide.min_y, max_y |-> wide.max_y,
          scale |-> ScaleOf(wide) ]

\* the item a create message has just added
Created == svg_objects'[last'.arg]

\* C13 as stated: creating an item strictly outside the tracked box moves
\* the tracked box strictly in the direction of the item, and removing the
\* last item leaves the extent unchanged
C13_Original ==
    [][ /\ last'.op = "create" =>
              /\ RLt(mm_max_x, RSub(Created.x, Created.width))
                    => RLt(mm_max_x, mm_max_x')
              /\ RLt(RAdd(Created.x, Created.width), mm_min_x)
                    => RLt(mm_min_x', mm_min_x)
              /\ RLt(mm_max_y, RSub(Created.y, Created.height))
                    => RLt(mm_max_y, mm_max_y')
              /\ RLt(RAdd(Created.y, Created.height), mm_min_y)
                    => RLt(mm_min_y', mm_min_y)
        /\ (last'.op = "remove" /\ DOMAIN svg_objects' = {})
              => ExtentAfter = Extent ]_vars

\* C13 amended: while the minimap is shown, creating an item of nesting
\* depth 1 strictly outside the tracked box moves the tracked box strictly
\* in the direction of the item; while the minimap is hidden a create
\* message leaves the extent unchanged; removing the last item leaves the
\* extent unchanged
C13_ExtentMonotone ==
    [][ /\ (last'.op = "create" /\ mm_display /\ Created.depth <= 1) =>
              /\ RLt(mm_max_x, RSub(Created.x, Created.width))
                    => RLt(mm_max_x, mm_max_x')
              /\ RLt(RAdd(Created.x, Created.width), mm_min_x)
                    => RLt(mm_min_x', mm_min_x)
              /\ RLt(mm_max_y, RSub(Created.y, Created.height))
                    => RLt(mm_max_y, mm_max_y')
              /\ RLt(RAdd(Created.y, Created.height), mm_min_y)
                    => RLt(mm_min_y', mm_min_y)
        /\ (last'.op = "create" /\ ~mm_display) => ExtentAfter = Extent
        /\ (last'.op = "remove" /\ DOMAIN svg_objects' = {})
              => ExtentAfter = Extent ]_vars

\* C13 witness: with the minimap shown, E was created to the right of the
\* box tracked for A, and the box now ends right of E
C13_Witness ==
    /\ last.op = "create" /\ last.arg = "E" /\ mm_display
    /\ DOMAIN svg_objects = {"A", "E"}
    /\ svg_objects["A"].x = RInt(1) /\ svg_objects["E"].x = R(7, 2)
    /\ RLt(RInt(4), mm_max_x) /\ RLt(mm_min_x, Zero)

\* a step in which scaleMiniMap ran past its two returns
Recomputed ==
    /\ mm_display' /\ DOMAIN svg_objects' # {}
    /\ \/ last'.op = "toggle"
       \/ last'.op = "create"
       \/ last'.op = "remove" /\ last'.arg \in DOMAIN svg_objects
       \/ last'.op = "pos_size" /\ last'.arg.uid \in DOMAIN svg_objects

\* C14 as stated: the extent stays as it is whenever the registry holds no
\* item of nesting depth 1 or less
C14_Original ==
    [][ TopItems(svg_objects') = {} => ExtentAfter = Extent ]_vars

\* C14 amended: the extent stays as it is when the registry is empty; when
\* the registry holds only items of nesting depth greater than 1 and the
\* minimap is shown, the recompute keeps the box it had, widens it by 5% of
\* its scale once more and sets mm_scale to the scale of the widened box
C14_NoItemToBound ==
    [][ /\ DOMAIN svg_objects' = {} => ExtentAfter = Extent
        /\ (Recomputed /\ TopItems(svg_objects') = {})
              => ExtentAfter = Padded(Extent) ]_vars

\* C14 witness: the minimap was shown while the registry holds B alone, of
\* nesting depth 2, and the box that was 0 wide is no longer
C14_Witness ==
    /\ last.op = "toggle" /\ mm_display
    /\ DOMAIN svg_objects = {"B"} /\ svg_objects["B"].depth = 2
    /\ viewbox = 1
    /\ mm_min_x # Zero /\ mm_max_x # Zero

\* C20 as stated: a pos_size message for an item sets its position and size
\* and the extent is recomputed from the new geometry
C20_Original ==
    [][ (last'.op = "pos_size" /\ last'.arg.uid \in DOMAIN svg_objects) =>
          /\ svg_objects'[last'.arg.uid].x = last'.arg.pos[1]
          /\ svg_objects'[last'.arg.uid].y = last'.arg.pos[2]
          /\ svg_objects'[last'.arg.uid].width = last'.arg.size[1]
          /\ svg_objects'[last'.arg.uid].height = last'.arg.size[2]
          /\ TopItems(svg_objects') # {}
                => ExtentAfter = Padded(BoxOf(svg_objects')) ]_vars

\* C20 amended: a pos_size message for an item sets its position and size;
\* while the minimap is shown the extent is then recomputed from the new
\* geometry of the items of nesting depth 1, and while the minimap is hidden
\* the extent stays as it is
C20_PosSize ==
    [][ (last'.op = "pos_size" /\ last'.arg.uid \in DOMAIN svg_objects) =>
          /\ svg_objects'[last'.arg.uid].x = last'.arg.pos[1]
          /\ svg_objects'[last'.arg.uid].y = last'.arg.pos[2]
          /\ svg_objects'[last'.arg.uid].width = last'.arg.size[1]
          /\ svg_objects'[last'.arg.uid].height = last'.arg.size[2]
          /\ \A k \in DOMAIN svg_objects \ {last'.arg.uid} :
                svg_objects'[k] = svg_objects[k]
          /\ (mm_display /\ TopItems(svg_objects') # {})
                => ExtentAfter = Padded(BoxOf(svg_objects'))
          /\ ~mm_display => ExtentAfter = Extent ]_vars

\* C20 witness: with the minimap shown, A was moved from (1, 1) to (7/2, 1)
\* and the tracked box is the widened box of its new geometry
C20_Witness ==
    /\ last.op = "pos_size" /\ last.arg.uid = "A" /\ mm_display
    /\ DOMAIN svg_objects = {"A"}
    /\ svg_objects["A"].x = R(7, 2) /\ svg_objects["A"].width = R(1, 2)
    /\ mm_min_x = RSub(RInt(3), R(1, 40))
    /\ mm_max_x = RAdd(RInt(4), R(1, 40))
    /\ mm_scale = R(20, 41)

\* ------------------------------------------------------------------------
\* Properties of the zoom toward the cursor and of the highlight rectangle
\* ------------------------------------------------------------------------

\* the normalized position of the cursor of a wheel event
CursorX(event) == RDiv(RInt(event.clientX), RInt(width))

CursorY(event) == RDiv(RInt(event.clientY - tool_height), RInt(height))

\* the factor a wheel event zooms by
ZoomOf(event) == wheel_z_scale(wheel_delta(event))

\* e2 zooms around the cursor of e1 by the inverse of its factor
Inverse(e1, e2) ==
    /\ e1.clientX = e2.clientX /\ e1.clientY = e2.clientY
    /\ ZoomOf(e2) = RRecip(ZoomOf(e1))

\* C11: in every state, a wheel event zooming by z followed by a wheel event
\* zooming by 1 / z at the same cursor leaves offsetX, offsetY and scale as
\* they were before the two events
C11_ZoomRoundTrip ==
    \A e1 \in WheelEvents, e2 \in WheelEvents :
        Inverse(e1, e2) =>
            LET S2 == on_wheel(on_wheel(NG, e1), e2)
            IN  /\ S2.offsetX = offsetX
                /\ S2.offsetY = offsetY
                /\ S2.scale = scale

\* C11 witness: from offset (1/2, -1/4) and scale 2, set by a pan and a zoom
\* message, a wheel event zoomed in by 2 and the next one zoomed out by 2 at
\* the same cursor, and each reported its zoom
C11_Witness ==
    /\ last.op = "wheel" /\ last.arg.deltaY = 600
    /\ events = 4
    /\ offsetX = R(1, 2) /\ offsetY = R(-1, 4) /\ scale = RInt(2)
    /\ Len(sent) = 2
    /\ sent[1].act = "zoom" /\ sent[1].scale = RInt(4)
    /\ sent[1].x # offsetX
    /\ sent[2] = [act |-> "zoom", scale |-> scale, x |-> offsetX,
                  y |-> offsetY]

\* C12: a wheel event zooming by z with the cursor at (x, y) leaves
\* x / scale - offsetX and y / scale - offsetY as they were and multiplies
\* the scale by z
C12_ZoomFixedPoint ==
    [][ last'.op = "wheel" =>
          /\ RSub(RDiv(CursorX(last'.arg), scale'), offsetX')
                = RSub(RDiv(CursorX(last'.arg), scale), offsetX)
          /\ RSub(RDiv(CursorY(last'.arg), scale'), offsetY')
                = RSub(RDiv(CursorY(last'.arg), scale), offsetY)
          /\ scale' = RMul(ZoomOf(last'.arg), scale) ]_vars

\* C12 witness: at scale 2 and offset (1/2, -1/4) the wheel zoomed by 3/2
\* with the cursor at (1/4, 0), which moved the offset to (11/24, -1/4)
C12_Witness ==
    /\ last.op = "wheel" /\ last.arg.deltaY = -147
    /\ scale = RInt(3)
    /\ Len(sent) = 1
    /\ offsetX = R(11, 24) /\ offsetY = R(-1, 4)
    /\ sent[1] = [act |-> "zoom", scale |-> scale, x |-> offsetX,
                  y |-> offsetY]

\* a step in which scaleMiniMap ran past its two returns
ViewRecomputed ==
    /\ mm_display' /\ DOMAIN svg_objects' # {}
    /\ last'.op \in {"toggle", "create"}

\* C15: scaleMiniMapViewBox is called on every drag move tick, every wheel
\* event, every inbound pan message, every inbound zoom message, every
\* resize and after every recompute of the extent
C15_ViewBoxRecomputed ==
    [][ /\ last'.op \in {"drag_move", "wheel", "pan", "zoom", "resize"}
              => viewbox' >= 1
        /\ ViewRecomputed => viewbox' >= 1 ]_vars

\* ------------------------------------------------------------------------
\* The dispatch of the inbound messages: a connection that carries the uid
\* of an item, messages of a type on_message does not know
\* ------------------------------------------------------------------------
MsgItemUids == {"A", "B"}

MsgConnInfos ==
    [type : {"conn"}, uid : {"c1"}, pres : {<<"A">>},
     posts : {<<"B">>, <<"A", "B">>}]
    \cup [type : {"conn"}, uid : {"A"}, pres : {<<"B">>}, posts : {<<"B">>}]

MsgReconnectInfos ==
    [type : {"reconnect"}, uid : {"c1"}, pres : {<<"A">>, <<"B">>},
     posts : {<<"B">>, <<"A", "B">>}]

MsgRemoveInfos == [type : {"remove"}, uid : {"A", "B", "c1"}]

UnknownMsgs == { [type |-> "move", uid |-> "A"],
                 [type |-> "Pan", pan |-> <<R(1, 2), R(-1, 4)>>] }

\* ws.onmessage: one message is handled
Receive(data) == Handled(on_message(NG, data), data.type, data) /\ Message

RcvCreateObject ==
    \E data \in ItemInfos(MsgItemUids, {Geom1}) :
        /\ data.uid \notin DOMAIN svg_objects
        /\ data.parent = NULL \/ data.parent \in DOMAIN svg_objects
        /\ Receive(data)

RcvCreateConnection ==
    \E data \in MsgConnInfos :
        /\ data.uid \notin DOMAIN svg_conns
        /\ \A v \in Views : <<data.uid, v>> \notin Waiting(collapsed_conns)
        /\ Receive(data)

RcvRemove == \E data \in MsgRemoveInfos : Receive(data)

RcvReconnect == \E data \in MsgReconnectInfos : Receive(data)

RcvPan == \E data \in PanMsgs : Receive(data)

RcvUnknown == \E data \in UnknownMsgs : Receive(data)

NextMsg ==
    \/ RcvCreateObject
    \/ RcvCreateConnection
    \/ RcvRemove
    \/ RcvReconnect
    \/ RcvPan
    \/ RcvUnknown

SpecMsg == Init /\ [][NextMsg]_vars

\* C16: a message of a type on_message has no branch for is logged and
\* changes no registry, no entry of the pending index, neither pan offset,
\* scale nor extent, and sends nothing, so that the message after it is
\* handled as if it had not arrived
C16_UnknownDropped ==
    [][ last'.op \notin KnownTypes =>
          /\ warnings' = 1
          /\ svg_objects' = svg_objects
          /\ minimap_objects' = minimap_objects
          /\ svg_conns' = svg_conns
          /\ minimap_conns' = minimap_conns
          /\ conn_objs' = conn_objs
          /\ collapsed_conns' = collapsed_conns
          /\ offsetX' = offsetX /\ offsetY' = offsetY /\ scale' = scale
          /\ ExtentAfter = Extent
          /\ sent' = sent
          /\ redraws' = NoRedraws ]_vars

\* C16 witness: a message of type Pan was logged while the registries hold
\* items and a connection, a connection waits in the pending index and the
\* pan offset is not the offset the message carries
C16_Witness ==
    /\ last.op = "Pan" /\ warnings = 1
    /\ DOMAIN svg_objects = {"A"} /\ "c1" \in DOMAIN svg_conns
    /\ DOMAIN collapsed_conns # {}
    /\ offsetX = Zero /\ offsetY = Zero

\* C17: a remove message for uid U removes the item U when U is an item,
\* leaving the connection registries as they are even when U is also a
\* connection, and removes the connection U only when U is no item
C17_RemoveLookupOrder ==
    [][ last'.op = "remove" =>
          LET U == last'.arg.uid
          IN  /\ U \in DOMAIN svg_objects =>
                    /\ U \notin DOMAIN svg_objects'
                    /\ U \notin DOMAIN minimap_objects'
                    /\ svg_conns' = svg_conns
                    /\ minimap_conns' = minimap_conns
                    /\ U \in DOMAIN svg_conns =>
                          /\ ~conn_objs'[<<U, "main">>].removed
                          /\ ~conn_objs'[<<U, "mini">>].removed
              /\ (U \notin DOMAIN svg_objects /\ U \in DOMAIN svg_conns) =>
                    /\ U \notin DOMAIN svg_conns'
                    /\ U \notin DOMAIN minimap_conns'
                    /\ svg_objects' = svg_objects
                    /\ minimap_objects' = minimap_objects ]_vars

\* C17 witness: A was both an item and a connection; the remove message
\* removed the item and the connection A is still in its registry
C17_Witness ==
    /\ last.op = "remove" /\ last.arg.uid = "A"
    /\ "A" \notin DOMAIN svg_objects /\ "A" \notin DOMAIN minimap_objects
    /\ "A" \in DOMAIN svg_conns /\ "A" \in DOMAIN minimap_conns
    /\ ~conn_objs[<<"A", "main">>].removed

\* C18: a reconnect message for a connection of the registry replaces its
\* pres and posts by those of the message, sets recurrent to whether their
\* first uids are equal and then redraws the connection once: the redraw
\* sees the connection as the handler leaves it
C18_Reconnect ==
    [][ (last'.op = "reconnect" /\ last'.arg.uid \in DOMAIN svg_conns) =>
          LET r == <<last'.arg.uid, "main">>
          IN  /\ conn_objs'[r].pres = last'.arg.pres
              /\ conn_objs'[r].posts = last'.arg.posts
              /\ conn_objs'[r].recurrent
                    = (last'.arg.pres[1] = last'.arg.posts[1])
              /\ redraws'[r] = 1
              /\ drawn'[r] = << conn_objs'[r] >> ]_vars

\* C18 witness: the connection c1 from A to B was reconnected to run from B
\* to B, which made it recurrent, and was redrawn
C18_Witness ==
    /\ last.op = "reconnect"
    /\ last.arg.pres = <<"B">> /\ last.arg.posts = <<"B">>
    /\ "c1" \in DOMAIN svg_conns
    /\ conn_objs[<<"c1", "main">>].pres = <<"B">>
    /\ conn_objs[<<"c1", "main">>].recurrent
    /\ conn_objs[<<"c1", "main">>].pre = "B"
    /\ redraws[<<"c1", "main">>] = 1
    /\ drawn[<<"c1", "main">>][1].recurrent

NamedUids == {"A", "B"}

\* pan messages carrying x and y instead of the pair pan
PanXYMsgs == { [type |-> "pan", x |-> R(1, 2), y |-> R(-1, 4)] }

ExpandMsgs == [type : {"expand", "collapse"}, uid : NamedUids]

RenameMsgs == [type : {"rename"}, uid : NamedUids, name : {"population"}]

PosSizeMsgs ==
    { [type |-> "pos_size", uid |-> u, pos |-> Geom2.pos,
       size |-> Geom2.size] : u \in NamedUids }

ItemRemoveMsgs == [type : {"remove"}, uid : NamedUids \cup {"c1"}]

ItemReconnectMsgs ==
    [type : {"reconnect"}, uid : {"c1", "A"}, pres : {<<"A">>},
     posts : {<<"B">>}]

ItemConnInfos ==
    [type : {"conn"}, uid : {"c1"}, pres : {<<"A">>}, posts : {<<"B">>}]

ItemCreateObject ==
    \E data \in ItemInfos({"A"}, {Geom1}) :
        /\ data.uid \notin DOMAIN svg_objects
        /\ Receive(data)

ItemCreateConnection ==
    \E data \in ItemConnInfos :
        /\ data.uid \notin DOMAIN svg_conns
        /\ \A v \in Views : <<data.uid, v>> \notin Waiting(collapsed_conns)
        /\ Receive(data)

ItemExpand == \E data \in ExpandMsgs : Receive(data)

ItemRename == \E data \in RenameMsgs : Receive(data)

ItemPosSize == \E data \in PosSizeMsgs : Receive(data)

ItemRemove == \E data \in ItemRemoveMsgs : Receive(data)

ItemReconnect == \E data \in ItemReconnectMsgs : Receive(data)

ItemPan == \E data \in PanMsgs \cup PanXYMsgs : Receive(data)

ItemZoom == \E data \in ZoomMsgs : Receive(data)

NextItem ==
    \/ ItemCreateObject
    \/ ItemCreateConnection
    \/ ItemExpand
    \/ ItemRename
    \/ ItemPosSize
    \/ ItemRemove
    \/ ItemReconnect
    \/ ItemPan
    \/ ItemZoom
    \/ ToggleMiniMap

SpecItem == Init /\ [][NextItem]_vars

\* C21 as stated: a pan message carrying x and y sets the pan offset to
\* (x, y), and a zoom message sets the scale to its field zoom
C21_Original ==
    [][ /\ last'.op = "pan" /\ {"x", "y"} \subseteq DOMAIN last'.arg =>
              offsetX' = last'.arg.x /\ offsetY' = last'.arg.y
        /\ last'.op = "zoom" => scale' = last'.arg.zoom ]_vars

\* C21: a pan message carrying the pair pan sets the pan offset to
\* (pan[0], pan[1]); a pan message carrying x and y instead ends in a
\* TypeError and leaves the pan offset as it was; a zoom message sets the
\* scale to its field zoom
C21_PanZoom ==
    [][ /\ last'.op = "pan" /\ "pan" \in DOMAIN last'.arg =>
              /\ offsetX' = last'.arg.pan[1]
              /\ offsetY' = last'.arg.pan[2]
              /\ ~thrown'
        /\ last'.op = "pan" /\ "pan" \notin DOMAIN last'.arg =>
              /\ thrown'
              /\ offsetX' = offsetX /\ offsetY' = offsetY
        /\ last'.op = "zoom" =>
              scale' = last'.arg.zoom /\ ~thrown' ]_vars

\* C21 witness: a pan message with the pair (1/2, -1/4) moved the view of a
\* graph zoomed to scale 2 from the origin
C21_Witness ==
    /\ last.op = "pan" /\ "pan" \in DOMAIN last.arg
    /\ offsetX = R(1, 2) /\ offsetY = R(-1, 4)
    /\ scale = RInt(2)
    /\ frames = << Frame(NG) >>

\* the message types that look a uid up without testing the result
LookupTypes ==
    {"expand", "collapse", "pos_size", "rename", "remove", "reconnect"}

\* C27: an expand, collapse, pos_size, rename, remove or reconnect message
\* naming a uid that is neither an item nor a connection ends in a
\* TypeError and leaves both item registries, both connection registries,
\* the pending index, the pan offset, the scale and the extent as they
\* were; nothing is redrawn and nothing is sent
C27_LookupMiss ==
    [][ /\ last'.op \in LookupTypes
        /\ last'.arg.uid \notin DOMAIN svg_objects
        /\ last'.arg.uid \notin DOMAIN svg_conns
        => /\ thrown'
           /\ svg_objects' = svg_objects
           /\ minimap_objects' = minimap_objects
           /\ svg_conns' = svg_conns
           /\ minimap_conns' = minimap_conns
           /\ conn_objs' = conn_objs
           /\ collapsed_conns' = collapsed_conns
           /\ offsetX' = offsetX /\ offsetY' = offsetY /\ scale' = scale
           /\ ExtentAfter = Extent
           /\ mm_display' = mm_display
           /\ sent' = sent
           /\ redraws' = NoRedraws /\ frames' = <<>> /\ viewbox' = 0 ]_vars

\* C27 witness: a pos_size message for B, which was never created, failed
\* while A and c1 are registered, c1 waits for B, the view is panned and
\* zoomed and the minimap shows the extent of A
C27_Witness ==
    /\ last.op = "pos_size" /\ last.arg.uid = "B" /\ thrown
    /\ DOMAIN svg_objects = {"A"} /\ DOMAIN svg_conns = {"c1"}
    /\ "B" \in DOMAIN collapsed_conns
    /\ offsetX = R(1, 2) /\ scale = RInt(2)
    /\ mm_display /\ Extent = Padded(BoxOf(svg_objects))

\* ------------------------------------------------------------------------
\* Server and user at once: messages about item A, about pan and zoom, and
\* the gestures of the user, MaxEvents of them
\* ------------------------------------------------------------------------

UIDragEvents == { [dx |-> 10, dy |-> -5] }

UIWheelEvents ==
    { [clientX |-> 250, clientY |-> tool_height + 100, deltaMode |-> 0,
       deltaY |-> -600],
      [clientX |-> 250, clientY |-> tool_height + 100, deltaMode |-> 0,
       deltaY |-> 600] }

UIMsgs ==
    ItemInfos({"A"}, {Geom1})
    \cup { [type |-> "pos_size", uid |-> "A", pos |-> Geom2.pos,
            size |-> Geom2.size] }
    \cup [type : {"expand", "collapse"}, uid : {"A"}]
    \cup { [type |-> "pan", pan |-> <<R(1, 2), R(-1, 4)>>] }
    \cup { [type |-> "zoom", zoom |-> RInt(2)],
           [type |-> "zoom", zoom |-> Zero] }

\* ws.onmessage, counted as an event
UIReceive ==
    \E data \in UIMsgs :
        /\ data.type = "net" => data.uid \notin DOMAIN svg_objects
        /\ Handled(on_message(NG, data), data.type, data)
        /\ Tick
        /\ UNCHANGED dragging

UIDragMove ==
    \E event \in UIDragEvents :
        /\ dragging
        /\ Handled(onmove(NG, event), "drag_move", event)
        /\ Tick
        /\ UNCHANGED dragging

UIWheel ==
    \E event \in UIWheelEvents :
        /\ Handled(on_wheel(NG, event), "wheel", event)
        /\ Tick
        /\ UNCHANGED dragging

\* the user picks Auto-layout in the menu
UIAutoLayout ==
    /\ Handled(auto_layout(NG), "layout", NULL)
    /\ Tick
    /\ UNCHANGED dragging

NextUI ==
    \/ UIReceive
    \/ ViewToggleMiniMap
    \/ DragStart
    \/ UIDragMove
    \/ DragEnd
    \/ UIWheel
    \/ UIAutoLayout

SpecUI == Init /\ [][NextUI]_vars

\* the handlers of the gestures that tell the server
Gestures == {"drag_end", "wheel", "layout"}

\* C22: the handlers of inbound pan, zoom, expand and collapse messages
\* send nothing, and whatever is sent is sent by the end of a drag, by the
\* wheel or by the Auto-layout entry
C22_NoEcho ==
    [][ /\ (last'.op \in {"pan", "zoom", "expand", "collapse"}) =>
              (sent' = sent)
        /\ (sent' # sent) => (last'.op \in Gestures) ]_vars

\* C22 witness: the server expanded A after the user had asked for the
\* automatic layout, and the layout request is all that was sent
C22_Witness ==
    /\ last.op = "expand" /\ ~thrown
    /\ svg_objects["A"].expanded
    /\ sent = << [act |-> "feedforward_layout", uid |-> NULL] >>

ToggledTwice == toggleMiniMap(toggleMiniMap(NG))

\* the handlers of create and pos_size messages and of the gestures
HiddenOps ==
    {"net", "ens", "node", "pos_size", "drag_start", "drag_move", "drag_end",
     "wheel", "layout"}

DrawnLast(r) ==
    \A i \in 1..Len(drawn'[r]) : drawn'[r][i] = conn_objs'[r]

\* C23: create_object registers both twins, then notifies the connections
\* waiting on the uid, which resolve against registries that hold the new
\* item in either view, then recomputes the extent: the redraw of that
\* recompute sees the connections as the notification left them, and the
\* extent bounds the new item
C23_CreateOrder ==
    [][ last'.op = "create" =>
          /\ last'.arg \in DOMAIN svg_objects'
          /\ last'.arg \in DOMAIN minimap_objects'
          /\ \A r \in WaitingOn(collapsed_conns, last'.arg) :
                ~conn_objs[r].removed =>
                    (/\ ResolvedIn(ObjectsAfter(r), conn_objs'[r])
                     /\ redraws'[r] >= 1
                     /\ DrawnLast(r))
          /\ mm_display =>
                (/\ Len(frames') = 1 /\ viewbox' = 1
                 /\ TopItems(svg_objects') # {} =>
                       ExtentAfter = Padded(BoxOf(svg_objects'))) ]_vars

\* C23 witness: with the minimap visible, the create message for A resolved
\* the connection c1, which waited on A with its pre endpoint, in both
\* views, redrew its main twin twice with A as pre, and the extent is the
\* one of A
C23_Witness ==
    /\ last.op = "create" /\ last.arg = "A" /\ mm_display
    /\ conn_objs[<<"c1", "main">>].pre = "A"
    /\ conn_objs[<<"c1", "mini">>].pre = "A"
    /\ Len(drawn[<<"c1", "main">>]) = 2
    /\ drawn[<<"c1", "main">>][1].pre = "A"
    /\ Extent = Padded(BoxOf(svg_objects))

\* ------------------------------------------------------------------------
\* The extent recompute run twice
\* ------------------------------------------------------------------------

\* the extent as the fields of S hold it
ExtentOf(S) ==
    [ min_x |-> S.mm_min_x, max_x |-> S.mm_max_x,
      min_y |-> S.mm_min_y, max_y |-> S.mm_max_y, scale |-> S.mm_scale ]

\* the minimap made visible, as toggleMiniMap does before its recompute
Shown == [NG EXCEPT !.mm_display = TRUE]

ResizeCreateObject ==
    OnCreateObject({"A", "B"}, {Geom1}) /\ Tick /\ UNCHANGED dragging

\* the user switches aspect_resize in the configuration
SetAspectResize ==
    \E val \in BOOLEAN :
        /\ Handled(set_aspect_resize(NG, val), "aspect_resize", val)
        /\ Tick
        /\ UNCHANGED dragging

NextResize ==
    \/ ResizeCreateObject
    \/ SetAspectResize
    \/ Resize
    \/ MsgZoom

SpecResize == Init /\ [][NextResize]_vars

\* item is as it was but for its width and height
SizeOnly(k) ==
    [svg_objects'[k] EXCEPT !.width = svg_objects[k].width,
                            !.height = svg_objects[k].height]
        = svg_objects[k]

\* C24: a resize event changes no item while aspect_resize is off; while it
\* is on it changes nothing but the width and height of the items of depth
\* 1 of the main view; either way the measured width and height are stored
\* before the one redraw of the handler, which sees them
C24_ResizeFrame ==
    [][ last'.op = "resize" =>
          /\ DOMAIN svg_objects' = DOMAIN svg_objects
          /\ minimap_objects' = minimap_objects
          /\ \A k \in DOMAIN svg_objects :
                /\ SizeOnly(k)
                /\ (~aspect_resize \/ svg_objects[k].depth # 1) =>
                      (svg_objects'[k] = svg_objects[k])
          /\ width' = last'.arg[1] /\ height' = last'.arg[2]
          /\ Len(frames') = 1
          /\ frames'[1].width = last'.arg[1]
          /\ frames'[1].height = last'.arg[2] ]_vars

\* C24 witness: with aspect_resize on, halving the window doubled the width
\* and height of A and left its child B as it was
C24_Witness ==
    /\ last.op = "resize" /\ aspect_resize
    /\ width = 250 /\ height = 200
    /\ DOMAIN svg_objects = {"A", "B"}
    /\ svg_objects["A"].width = RInt(2) /\ svg_objects["A"].height = RInt(2)
    /\ svg_objects["B"].width = One /\ svg_objects["B"].height = One

====
